---- MODULE Spec2Model ----
(***************************************************************************)
(* XimeApp::DispatchMessageSync (xenia/kernel/xam/apps/xime_app.cc): the   *)
(* synchronous dispatch gate of the XIME service (app id 0xF5), called by  *)
(* guest threads with (message, buffer_ptr, buffer_length).                *)
(* EmulatorWindow (xenia/app/emulator_window.cc): the emulator's window,   *)
(* its key, menu and file-drop handlers, fullscreen switching and the      *)
(* post-processing settings dialog, all run on the UI thread.              *)
(***************************************************************************)
EXTENDS Integers, Sequences, FiniteSets, TLC

\* ------------------------------------------------------------------ bounds
\* Total number of dispatches started in one behaviour of Spec.
MaxCalls == 2
\* Total number of dispatches started in one behaviour of RepeatSpec, and the
\* number of distinct argument triples they use.
MaxRepeatCalls == 3
MaxDistinctArgs == 2
\* Messages 0x00400000 + 0 .. 0x00400000 + MaxMsgOffset are dispatched.
MaxMsgOffset == 6
\* Number of UI events (key, menu, file drop, draw, callbacks) the window
\* handles in one behaviour.
MaxWindowEvents == 5

\* ------------------------------------------------------------ 32-bit words
\* A uint32_t is kept as <<high 16 bits, low 16 bits>>.
U32(hi, lo) == <<hi, lo>>
Le32(a, b) == a[1] < b[1] \/ (a[1] = b[1] /\ a[2] <= b[2])

\* ------------------------------------------------------- program constants
\* App(kernel_state, 0xF5)
XimeAppId == U32(0, 245)
\* case 0x00400001 .. case 0x00400005
XIME_INIT == U32(64, 1)
XIME_UNINIT == U32(64, 2)
XIME_SET_PROPERTY == U32(64, 3)
XIME_SET_CHARACTER == U32(64, 4)
XIME_GET_STRING == U32(64, 5)

\* Result codes and the severity predicate (xenia/xbox.h): 0x00000000,
\* 0xC0000001, and failure = either of the two top bits set.
X_E_SUCCESS == U32(0, 0)
X_STATUS_UNSUCCESSFUL == U32(49152, 1)
XFAILED(s) == ((s[1] \div 16384) % 4) # 0

\* The two host threads that run guest code.
Threads == {1, 2}
Other(t) == CHOOSE u \in Threads : u # t

\* ------------------------------------------------------------------ inputs
\* Every call of a behaviour passes the guest's one buffer, drawn at the start
\* from BufferAddrs and BufferLengths; the message is drawn at each call.
\* 0x00400000 + 0 .. MaxMsgOffset, and 0x00400099.
Messages == {U32(64, i) : i \in 0..MaxMsgOffset} \cup {U32(64, 153)}
\* 0, 0x00010010 inside the mapped range, 0xDEADBEEF outside every range.
BufferAddrs == {U32(0, 0), U32(1, 16), U32(57005, 48879)}
BufferLengths == {U32(0, 0), U32(0, 16)}

\* ------------------------------------------------------ address translator
\* The guest memory map: mapped ranges of guest virtual addresses.
GuestMemoryMap == {[lo |-> U32(1, 0), hi |-> U32(1, 65535)]}
\* A host pointer is the host base of guest memory plus the guest address.
HostPtr(addr) == <<"virtual_membase", addr>>
NoHostPtr == <<"nullptr", U32(0, 0)>>
NullPtr == [null |-> TRUE, host |-> NoHostPtr, consulted |-> FALSE, miss |-> FALSE]
\* The local `buffer` before the translation has run.
Untranslated == [null |-> TRUE, host |-> <<"uninitialized", U32(0, 0)>>,
                 consulted |-> FALSE, miss |-> FALSE]
\* memory_->TranslateVirtual(addr): 0 yields null without a look at the map;
\* an address outside the mapped ranges yields null with the miss flag set.
TranslateVirtual(addr) ==
    IF addr = U32(0, 0)
    THEN NullPtr
    ELSE IF \E r \in GuestMemoryMap : Le32(r.lo, addr) /\ Le32(addr, r.hi)
         THEN [null |-> FALSE, host |-> HostPtr(addr),
               consulted |-> TRUE, miss |-> FALSE]
         ELSE [null |-> TRUE, host |-> NoHostPtr, consulted |-> TRUE,
               miss |-> TRUE]

\* The mapped guest addresses whose bytes the model keeps, and the bytes they
\* hold when the service is constructed.
SampledAddrs == {a \in BufferAddrs : ~TranslateVirtual(a).null}
InitialGuestMemory == [a \in SampledAddrs |-> 65]

\* ------------------------------------------------------------------ logging
\* {:08X} of a 32-bit value: eight hexadecimal digits, most significant first.
Hex4(h) == [i \in 1..4 |-> (h \div (16 ^ (4 - i))) % 16]
Hex8(v) == Hex4(v[1]) \o Hex4(v[2])
\* The 32-bit value eight hexadecimal digits stand for.
HexValue(d) ==
    U32(d[1] * 4096 + d[2] * 256 + d[3] * 16 + d[4],
        d[5] * 4096 + d[6] * 256 + d[7] * 16 + d[8])

Lit(s) == [kind |-> "lit", text |-> s, digits |-> <<>>]
HexPiece(v) == [kind |-> "hex", text |-> "", digits |-> Hex8(v)]

\* The log formatter: a replacement field {:08X} consumes the next argument;
\* every other piece of the format string, a printf conversion such as %.8X
\* included, is copied as it stands, and arguments left over are dropped.
RECURSIVE FmtFormat(_, _)
FmtFormat(fmt, args) ==
    IF fmt = <<>>
    THEN <<>>
    ELSE IF Head(fmt) = "{:08X}" /\ args # <<>>
         THEN <<HexPiece(Head(args))>> \o FmtFormat(Tail(fmt), Tail(args))
         ELSE <<Lit(Head(fmt))>> \o FmtFormat(Tail(fmt), args)

XELOGD(fmt, args) == [level |-> "Debug", text |-> FmtFormat(fmt, args)]
XELOGE(fmt, args) == [level |-> "Error", text |-> FmtFormat(fmt, args)]

\* --------------------------------------------------------- the opcode table
\* SwitchCase with the case for 0x00400005 left out.
SwitchCase_NoGetString(msg) ==
    CASE msg = XIME_INIT -> "XimeInit"
      [] msg = XIME_UNINIT -> "XimeUninit"
      [] msg = XIME_SET_PROPERTY -> "XimeSetProperty"
      [] msg = XIME_SET_CHARACTER -> "XimeSetCharacter"
      [] OTHER -> "Unimplemented"

\* switch (message): the case label taken, "Unimplemented" when no case matches.
SwitchCase(msg) ==
    CASE msg = XIME_INIT -> "XimeInit"
      [] msg = XIME_UNINIT -> "XimeUninit"
      [] msg = XIME_SET_PROPERTY -> "XimeSetProperty"
      [] msg = XIME_SET_CHARACTER -> "XimeSetCharacter"
      [] msg = XIME_GET_STRING -> "XimeGetString"
      [] OTHER -> "Unimplemented"

StubCases ==
    {"XimeInit", "XimeUninit", "XimeSetProperty", "XimeSetCharacter",
     "XimeGetString"}

\* The format string of a case's XELOGD call and its arguments.
StubFormat(case) == <<case, "(", "{:08X}", ", ", "{:08X}", "), unimplemented">>
StubLogArgs(ptr, len) == <<ptr, len>>

\* The format string of the XELOGE call after the switch and its arguments.
UnimplementedFormat ==
    <<"Unimplemented Xime message app=", "%.8X", ", msg=", "%.8X",
      ", arg1=", "%.8X", ", arg2=", "%.8X">>
UnimplementedLogArgs(app, msg, ptr, len) == <<app, msg, ptr, len>>

\* CaseReadsBuffer with XimeGetString copying its string out through `buffer`.
CaseReadsBuffer_GetString(case) == case = "XimeGetString"

\* Whether a case body reads through the translated pointer: none does.
CaseReadsBuffer(case) == FALSE

\* CaseResult with the code after the switch replaced by the success code.
CaseResult_DefaultSuccess(case) == X_E_SUCCESS

\* CaseResult with the failure code cut to its low 16 bits (0x00000001).
CaseResult_LowHalf(case) ==
    IF case \in {"XimeInit", "XimeUninit", "XimeSetProperty",
                 "XimeSetCharacter", "XimeGetString"}
    THEN X_E_SUCCESS
    ELSE U32(0, X_STATUS_UNSUCCESSFUL[2])

\* The code a case returns.
CaseResult(case) ==
    IF case \in StubCases THEN X_E_SUCCESS ELSE X_STATUS_UNSUCCESSFUL

\* ------------------------------------------------------------------- state
VARIABLES
    pc,             \* per thread: where it is in DispatchMessageSync
    message,        \* per thread: the message argument
    buffer_ptr,     \* per thread: the buffer_ptr argument
    buffer_length,  \* per thread: the buffer_length argument
    buffer,         \* per thread: the local `buffer`
    case,           \* per thread: the case label the switch jumped to
    result,         \* per thread: the value returned, NoResult before
    log,            \* the diagnostic log, shared by all threads
    trace,          \* per thread: what the current call has done, in order
    emitted,        \* per thread: the log entries of the current call
    overlapped,     \* per thread: another call was in flight during this one
    returned,       \* <<arguments, code>> of every call returned so far, in order
    ncalls,         \* dispatches started so far
    guest_buffer,   \* the (buffer_ptr, buffer_length) the guest passes to its calls
    app_id_,        \* the service's app id, set by the constructor
    guest_memory,   \* the bytes of guest memory at the sampled mapped addresses
    emulator_initialized_,  \* EmulatorWindow::emulator_initialized_
    main_menu_enabled,      \* window_: set by SetMainMenuEnabled
    is_fullscreen,          \* window_->IsFullscreen()
    cursor_visibility,      \* window_: set by SetCursorVisibility
    cvars_fullscreen,       \* cvars::fullscreen
    guest_time_scalar,      \* Clock::guest_time_scalar(), as its binary logarithm
    launches,               \* number of emulator_->LaunchPath calls
    display_config_dialog_, \* whether display_config_dialog_ holds a dialog
    dialogs,                \* DisplayConfigDialog objects made and destroyed, toggles called
    graphics_system,        \* what emulator_->graphics_system() gives
    postprocess_antialiasing,            \* cvars::postprocess_antialiasing
    postprocess_scaling_and_sharpening,  \* cvars::postprocess_scaling_and_sharpening
    desired_swap_post_effect,   \* the command processor's desired swap post effect
    guest_output_paint_effect,  \* the effect of the presenter's paint config
    fullscreen_writes,      \* number of window_->SetFullscreen calls
    cursor_writes,          \* number of window_->SetCursorVisibility calls
    last_event,             \* the UI event handled last and what it did
    nevents                 \* UI events handled so far

\* What the service holds besides the frames of its calls: its id and the
\* guest memory it borrows.
service_vars == <<app_id_, guest_memory>>

\* The state of the emulator window and of what its handlers reach.
window_vars ==
    <<emulator_initialized_, main_menu_enabled, is_fullscreen,
      cursor_visibility, cvars_fullscreen, guest_time_scalar, launches,
      display_config_dialog_, dialogs, graphics_system,
      postprocess_antialiasing, postprocess_scaling_and_sharpening,
      desired_swap_post_effect, guest_output_paint_effect, fullscreen_writes,
      cursor_writes, last_event, nevents>>

\* The state of the dispatch gate, the log left out.
dispatch_vars ==
    <<pc, message, buffer_ptr, buffer_length, buffer, case, result, trace,
      emitted, overlapped, returned, ncalls, guest_buffer, service_vars>>

vars ==
    <<pc, message, buffer_ptr, buffer_length, buffer, case, result, log, trace,
      emitted, overlapped, returned, ncalls, guest_buffer, service_vars,
      window_vars>>

\* ui::Window::CursorVisibility
CursorVisibilities == {"kVisible", "kAutoHidden", "kHidden"}
\* gpu::CommandProcessor::SwapPostEffect
SwapPostEffects == {"kNone", "kFxaa", "kFxaaExtreme"}
\* ui::Presenter::GuestOutputPaintConfig::Effect
PaintEffects == {"kBilinear", "kCas", "kFsr"}
\* emulator_->graphics_system(): null, one whose command processor is not
\* there yet, or one with its command processor and its presenter.
GraphicsSystems == {"null", "presenter_only", "ready"}

NoEvent ==
    [handler |-> "none", key |-> "none", ctrl |-> FALSE, invoked |-> "none",
     handled |-> FALSE, arg |-> "none", wrote |-> {}, after_toggle |-> {}]

\* No DisplayConfigDialog has been constructed and no toggle called.
NoDialogs == [constructed |-> 0, destroyed |-> 0, toggles |-> 0]

\* The window when EmulatorWindow::Create has returned it: Initialize has set
\* the main menu and disabled it; nothing has been launched or drawn.
WindowCreated(cursor, fullscreen_cvar, aa_cvar, scaling_cvar, graphics) ==
    /\ emulator_initialized_ = FALSE
    /\ main_menu_enabled = FALSE
    /\ is_fullscreen = FALSE
    /\ cursor_visibility = cursor
    /\ cvars_fullscreen = fullscreen_cvar
    /\ guest_time_scalar = 0
    /\ launches = 0
    /\ display_config_dialog_ = FALSE
    /\ dialogs = NoDialogs
    /\ graphics_system = graphics
    /\ postprocess_antialiasing = aa_cvar
    /\ postprocess_scaling_and_sharpening = scaling_cvar
    /\ desired_swap_post_effect = "kNone"
    /\ guest_output_paint_effect = "kBilinear"
    /\ fullscreen_writes = 0
    /\ cursor_writes = 0
    /\ last_event = NoEvent
    /\ nevents = 0

NoResult == <<-1, -1>>
InFlight(t) == pc[t] \in {"translate", "switch", "case", "return"}

\* The service when its constructor has returned, before any call; buf is
\* the buffer the guest will pass.
ServiceConstructed(buf) ==
    /\ pc = [t \in Threads |-> "idle"]
    /\ message = [t \in Threads |-> U32(0, 0)]
    /\ buffer_ptr = [t \in Threads |-> U32(0, 0)]
    /\ buffer_length = [t \in Threads |-> U32(0, 0)]
    /\ buffer = [t \in Threads |-> Untranslated]
    /\ case = [t \in Threads |-> "none"]
    /\ result = [t \in Threads |-> NoResult]
    /\ log = <<>>
    /\ trace = [t \in Threads |-> <<>>]
    /\ emitted = [t \in Threads |-> <<>>]
    /\ overlapped = [t \in Threads |-> FALSE]
    /\ returned = <<>>
    /\ ncalls = 0
    /\ guest_buffer = buf
    /\ app_id_ = XimeAppId
    /\ guest_memory = InitialGuestMemory

Init ==
    /\ \E buf \in BufferAddrs \X BufferLengths : ServiceConstructed(buf)
    /\ WindowCreated("kVisible", FALSE, "", "", "ready")

\* Thread t enters DispatchMessageSync(msg, ptr, len) with a fresh frame.
EnterDispatch(t, msg, ptr, len) ==
    /\ pc[t] \in {"idle", "done"}
    /\ ncalls' = ncalls + 1
    /\ pc' = [pc EXCEPT ![t] = "translate"]
    /\ message' = [message EXCEPT ![t] = msg]
    /\ buffer_ptr' = [buffer_ptr EXCEPT ![t] = ptr]
    /\ buffer_length' = [buffer_length EXCEPT ![t] = len]
    /\ buffer' = [buffer EXCEPT ![t] = Untranslated]
    /\ case' = [case EXCEPT ![t] = "none"]
    /\ result' = [result EXCEPT ![t] = NoResult]
    /\ trace' = [trace EXCEPT ![t] = <<>>]
    /\ emitted' = [emitted EXCEPT ![t] = <<>>]
    /\ overlapped' = [u \in Threads |->
                        IF u = t THEN InFlight(Other(t))
                        ELSE overlapped[u] \/ InFlight(u)]
    /\ UNCHANGED <<log, returned, guest_buffer, service_vars, window_vars>>

\* A guest thread calls the service.
Call(t, msg, ptr, len) ==
    /\ ncalls < MaxCalls
    /\ EnterDispatch(t, msg, ptr, len)

\* The argument triples of the calls started so far.
ArgsInUse ==
    {returned[i][1] : i \in 1..Len(returned)}
    \cup {<<message[u], buffer_ptr[u], buffer_length[u]>> :
             u \in {v \in Threads : InFlight(v)}}

\* A guest thread calls the service; the guest repeats a few argument triples.
RepeatCall(t, msg, ptr, len) ==
    /\ ncalls < MaxRepeatCalls
    /\ Cardinality(ArgsInUse \cup {<<msg, ptr, len>>}) <= MaxDistinctArgs
    /\ EnterDispatch(t, msg, ptr, len)

\* Translate with the translation left to the case bodies, which do none.
Translate_Deferred(t) ==
    /\ pc[t] = "translate"
    /\ pc' = [pc EXCEPT ![t] = "switch"]
    /\ UNCHANGED <<message, buffer_ptr, buffer_length, buffer, case, result,
                   log, trace, emitted, overlapped, returned, ncalls,
                   guest_buffer, service_vars, window_vars>>

\* auto buffer = memory_->TranslateVirtual(buffer_ptr);
Translate(t) ==
    /\ pc[t] = "translate"
    /\ buffer' = [buffer EXCEPT ![t] = TranslateVirtual(buffer_ptr[t])]
    /\ trace' = [trace EXCEPT ![t] = Append(@, "translate")]
    /\ pc' = [pc EXCEPT ![t] = "switch"]
    /\ UNCHANGED <<message, buffer_ptr, buffer_length, case, result, log,
                   emitted, overlapped, returned, ncalls,
                   guest_buffer, service_vars, window_vars>>

\* switch (message) { ... }
Switch(t) ==
    /\ pc[t] = "switch"
    /\ case' = [case EXCEPT ![t] = SwitchCase(message[t])]
    /\ trace' = [trace EXCEPT ![t] = Append(@, "lookup")]
    /\ pc' = [pc EXCEPT ![t] = "case"]
    /\ UNCHANGED <<message, buffer_ptr, buffer_length, buffer, result, log,
                   emitted, overlapped, returned, ncalls,
                   guest_buffer, service_vars, window_vars>>

\* Emit by a case body that also stores an empty string's terminator through
\* the translated pointer.
Emit_StoresToBuffer(t, entry) ==
    /\ log' = Append(log, entry)
    /\ emitted' = [emitted EXCEPT ![t] = Append(@, entry)]
    /\ trace' = [trace EXCEPT ![t] = Append(@, "log")]
    /\ pc' = [pc EXCEPT ![t] = "return"]
    /\ guest_memory' =
          IF case[t] \in StubCases /\ ~buffer[t].null
          THEN [guest_memory EXCEPT ![buffer_ptr[t]] = 0]
          ELSE guest_memory
    /\ UNCHANGED <<message, buffer_ptr, buffer_length, buffer, case, result,
                   overlapped, returned, ncalls, guest_buffer, app_id_,
                   window_vars>>

\* Append one entry to the log on behalf of thread t, then go on to return; a
\* case body that read through a null pointer would fault the host instead.
Emit(t, entry) ==
    /\ log' = Append(log, entry)
    /\ emitted' = [emitted EXCEPT ![t] = Append(@, entry)]
    /\ trace' = [trace EXCEPT ![t] = Append(@, "log")]
    /\ pc' = [pc EXCEPT ![t] =
                IF CaseReadsBuffer(case[t]) /\ buffer[t].null
                THEN "fault" ELSE "return"]
    /\ UNCHANGED <<message, buffer_ptr, buffer_length, buffer, case, result,
                   overlapped, returned, ncalls,
                   guest_buffer, service_vars, window_vars>>

\* LogStub that waits for the logger while another call is at its log
\* statement.
LogStub_WaitsForLogger(t) ==
    /\ pc[t] = "case"
    /\ case[t] \in StubCases
    /\ pc[Other(t)] # "case"
    /\ Emit(t, XELOGD(StubFormat(case[t]),
                      StubLogArgs(buffer_ptr[t], buffer_length[t])))

\* LogStub with the stub's diagnostic raised to error severity.
LogStub_AsError(t) ==
    /\ pc[t] = "case"
    /\ case[t] \in StubCases
    /\ Emit(t, XELOGE(StubFormat(case[t]),
                      StubLogArgs(buffer_ptr[t], buffer_length[t])))

\* case 0x0040000N: XELOGD("XimeXxx({:08X}, {:08X}), unimplemented", ...);
LogStub(t) ==
    /\ pc[t] = "case"
    /\ case[t] \in StubCases
    /\ Emit(t, XELOGD(StubFormat(case[t]),
                      StubLogArgs(buffer_ptr[t], buffer_length[t])))

\* XELOGE("Unimplemented Xime message app=%.8X, ...", app_id(), message, ...);
LogUnimplemented(t) ==
    /\ pc[t] = "case"
    /\ case[t] \notin StubCases
    /\ Emit(t, XELOGE(UnimplementedFormat,
                      UnimplementedLogArgs(app_id_, message[t],
                                           buffer_ptr[t], buffer_length[t])))

\* What every return statement does besides choosing the code.
ReturnWith(t, code) ==
    /\ pc[t] = "return"
    /\ result' = [result EXCEPT ![t] = code]
    /\ trace' = [trace EXCEPT ![t] = Append(@, "return")]
    /\ returned' = Append(returned,
                          <<<<message[t], buffer_ptr[t], buffer_length[t]>>,
                            code>>)
    /\ pc' = [pc EXCEPT ![t] = "done"]
    /\ UNCHANGED <<message, buffer_ptr, buffer_length, buffer, case, log,
                   emitted, overlapped, ncalls,
                   guest_buffer, service_vars, window_vars>>

\* Return that falls off the end of the function without a return statement.
Return_NoCode(t) ==
    /\ pc[t] = "return"
    /\ pc' = [pc EXCEPT ![t] = "done"]
    /\ UNCHANGED <<message, buffer_ptr, buffer_length, buffer, case, result,
                   log, trace, emitted, overlapped, returned, ncalls,
                   guest_buffer, service_vars, window_vars>>

\* Return that fails a call whose translated buffer is null.
Return_NullIsError(t) ==
    ReturnWith(t, IF buffer[t].null THEN X_STATUS_UNSUCCESSFUL
                  ELSE CaseResult(case[t]))

\* Return that fails a call whose buffer_ptr missed the guest memory map.
Return_MissIsError(t) ==
    ReturnWith(t, IF buffer[t].miss THEN X_STATUS_UNSUCCESSFUL
                  ELSE CaseResult(case[t]))

\* Return that keeps failing once a call has returned a failure code.
Return_AfterFailure(t) ==
    ReturnWith(t, IF \E i \in 1..Len(returned) : XFAILED(returned[i][2])
                  THEN X_STATUS_UNSUCCESSFUL
                  ELSE CaseResult(case[t]))

\* Return that takes the code from a status shared by all threads: the case
\* of whichever call went through the switch, this one or an overlapping one.
Return_SharedStatus(t) ==
    \E u \in Threads :
        /\ u = t \/ pc[u] \in {"case", "return"}
        /\ ReturnWith(t, CaseResult(case[u]))

\* Return that keeps failing once an error has been logged.
Return_StickyError(t) ==
    ReturnWith(t, IF \E i \in 1..Len(log) : log[i].level = "Error"
                  THEN X_STATUS_UNSUCCESSFUL
                  ELSE CaseResult(case[t]))

\* return X_E_SUCCESS; / return X_STATUS_UNSUCCESSFUL;
Return(t) == ReturnWith(t, CaseResult(case[t]))

\* One step of thread t inside DispatchMessageSync.
Step(t) == Translate(t) \/ Switch(t) \/ LogStub(t) \/ LogUnimplemented(t) \/ Return(t)

Next ==
    \/ \E t \in Threads, msg \in Messages :
          Call(t, msg, guest_buffer[1], guest_buffer[2])
    \/ \E t \in Threads : Translate(t)
    \/ \E t \in Threads : Switch(t)
    \/ \E t \in Threads : LogStub(t)
    \/ \E t \in Threads : LogUnimplemented(t)
    \/ \E t \in Threads : Return(t)

Spec == Init /\ [][Next]_vars

RepeatNext ==
    \/ \E t \in Threads, msg \in Messages :
          RepeatCall(t, msg, guest_buffer[1], guest_buffer[2])
    \/ \E t \in Threads : Translate(t)
    \/ \E t \in Threads : Switch(t)
    \/ \E t \in Threads : LogStub(t)
    \/ \E t \in Threads : LogUnimplemented(t)
    \/ \E t \in Threads : Return(t)

\* The buffers of the guests whose calls are scheduled, repeated or stopped:
\* no buffer, a mapped buffer and an unmapped one.
CallerBuffers == {<<a, IF a = U32(0, 0) THEN U32(0, 0) ELSE U32(0, 16)>> : a \in BufferAddrs}

CallerInit ==
    /\ \E buf \in CallerBuffers : ServiceConstructed(buf)
    /\ WindowCreated("kVisible", FALSE, "", "", "ready")

\* The same service called by a guest that repeats its calls.
RepeatSpec == CallerInit /\ [][RepeatNext]_vars

\* The host scheduler runs every thread that is inside the dispatch.
FairSpec == CallerInit /\ [][Next]_vars /\ \A t \in Threads : WF_vars(Step(t))

\* The thread that is kept running while the other may be stopped anywhere.
RunningThread == CHOOSE t \in Threads : \A u \in Threads : u <= t
\* The host scheduler runs RunningThread whenever it is inside the dispatch;
\* the other thread may be suspended for ever at any point of its call. An
\* activation nested in another on one thread is in the same position: it
\* runs while the outer activation stands still.
PausedSpec == CallerInit /\ [][Next]_vars /\ WF_vars(Step(RunningThread))

\* --------------------------------------------------------- cvar mappings
\* The strings the two cvars are given in a configuration: the listed names,
\* the documented "none" and "bilinear", a name in another case, a name of
\* the other family, and the empty string.
AntialiasingCvarValues == {"", "none", "fxaa", "fxaa_extreme", "FXAA", "cas"}
ScalingCvarValues == {"", "bilinear", "cas", "fsr", "CAS", "fxaa"}

\* GetSwapPostEffectForCvarValue that takes every name starting with "fxaa"
\* for normal-quality FXAA.
GetSwapPostEffectForCvarValue_Prefix(cvar_value) ==
    IF cvar_value \in {"fxaa", "fxaa_extreme"} THEN "kFxaa" ELSE "kNone"

\* EmulatorWindow::GetCvarValueForSwapPostEffect
GetCvarValueForSwapPostEffect(effect) ==
    CASE effect = "kFxaa" -> "fxaa"
      [] effect = "kFxaaExtreme" -> "fxaa_extreme"
      [] OTHER -> ""

\* EmulatorWindow::GetSwapPostEffectForCvarValue
GetSwapPostEffectForCvarValue(cvar_value) ==
    IF cvar_value = GetCvarValueForSwapPostEffect("kFxaa")
    THEN "kFxaa"
    ELSE IF cvar_value = GetCvarValueForSwapPostEffect("kFxaaExtreme")
         THEN "kFxaaExtreme"
         ELSE "kNone"

\* EmulatorWindow::GetCvarValueForGuestOutputPaintEffect
GetCvarValueForGuestOutputPaintEffect(effect) ==
    CASE effect = "kCas" -> "cas"
      [] effect = "kFsr" -> "fsr"
      [] OTHER -> ""

\* EmulatorWindow::GetGuestOutputPaintEffectForCvarValue
GetGuestOutputPaintEffectForCvarValue(cvar_value) ==
    IF cvar_value = GetCvarValueForGuestOutputPaintEffect("kCas")
    THEN "kCas"
    ELSE IF cvar_value = GetCvarValueForGuestOutputPaintEffect("kFsr")
         THEN "kFsr"
         ELSE "kBilinear"

\* -------------------------------------------------------- window handlers
\* ui::VirtualKey: the keys OnKeyDown has a case for, and one it has none for.
VirtualKeys ==
    {"kO", "kMultiply", "kSubtract", "kAdd", "kF3", "kF4", "kF5", "kF6",
     "kF11", "kEscape", "kF7", "kF8", "kPause", "kCancel", "kF1", "kF2", "kA"}
\* Whether the build defines DEBUG.
DEBUG == FALSE
\* The X_STATUS values emulator_->LaunchPath returns.
LaunchResults == {U32(0, 0), X_STATUS_UNSUCCESSFUL}
\* The methods the items of the main menu are bound to.
MenuCallees ==
    {"FileOpen", "ShowContentDirectory", "CpuTimeScalarReset",
     "CpuTimeScalarSetHalf", "CpuTimeScalarSetDouble", "CpuBreakIntoDebugger",
     "CpuBreakIntoHostDebugger", "GpuTraceFrame", "GpuClearCaches",
     "ToggleDisplayConfigDialog", "ToggleFullscreen",
     "ToggleControllerVibration", "ShowFAQ", "ShowCompatibility",
     "ShowBuildCommit"}

\* One more UI event is handled; e records it.
Event(e) ==
    /\ nevents < MaxWindowEvents
    /\ nevents' = nevents + 1
    /\ last_event' = e

\* SetFullscreen without the early return for a window already in the state
\* asked for.
SetFullscreen_NoEarlyReturn(fullscreen) ==
    /\ is_fullscreen' = fullscreen
    /\ fullscreen_writes' = fullscreen_writes + 1
    /\ cursor_visibility' = IF fullscreen THEN "kAutoHidden" ELSE "kVisible"
    /\ cursor_writes' = cursor_writes + 1

\* void EmulatorWindow::SetFullscreen(bool fullscreen)
SetFullscreen(fullscreen) ==
    IF is_fullscreen = fullscreen
    THEN UNCHANGED <<is_fullscreen, cursor_visibility, fullscreen_writes,
                     cursor_writes>>
    ELSE /\ is_fullscreen' = fullscreen
         /\ fullscreen_writes' = fullscreen_writes + 1
         /\ cursor_visibility' =
               IF fullscreen THEN "kAutoHidden" ELSE "kVisible"
         /\ cursor_writes' = cursor_writes + 1

\* void EmulatorWindow::ToggleFullscreen()
ToggleFullscreen == SetFullscreen(~is_fullscreen)

\* ToggleDisplayConfigDialog without the test of display_config_dialog_: a new
\* dialog is assigned every time, and the unique_ptr destroys the one it held.
ToggleDisplayConfigDialog_AlwaysCreates ==
    /\ display_config_dialog_' = TRUE
    /\ dialogs' = [dialogs EXCEPT
                     !.constructed = @ + 1,
                     !.destroyed = IF display_config_dialog_ THEN @ + 1 ELSE @,
                     !.toggles = @ + 1]

\* void EmulatorWindow::ToggleDisplayConfigDialog()
ToggleDisplayConfigDialog ==
    IF ~display_config_dialog_
    THEN /\ display_config_dialog_' = TRUE
         /\ dialogs' = [dialogs EXCEPT !.constructed = @ + 1,
                                       !.toggles = @ + 1]
    ELSE /\ display_config_dialog_' = FALSE
         /\ dialogs' = [dialogs EXCEPT !.destroyed = @ + 1,
                                       !.toggles = @ + 1]

\* emulator_->LaunchPath(path) and the XELOGE that follows a failure.
LaunchPath(status) ==
    /\ launches' = launches + 1
    /\ log' = IF XFAILED(status)
              THEN Append(log, XELOGE(<<"Failed to launch target: ", "{:08X}">>,
                                      <<status>>))
              ELSE log

\* void EmulatorWindow::FileOpen(): the file picker gives a path or none.
FileOpen(picked, status) ==
    IF picked THEN LaunchPath(status) ELSE UNCHANGED <<launches, log>>

\* Clock::guest_time_scalar() after CpuTimeScalarReset / SetHalf / SetDouble.
CpuTimeScalar(callee) ==
    CASE callee = "CpuTimeScalarReset" -> 0
      [] callee = "CpuTimeScalarSetHalf" -> guest_time_scalar - 1
      [] callee = "CpuTimeScalarSetDouble" -> guest_time_scalar + 1
      [] OTHER -> guest_time_scalar

\* What a key handler or a menu item does by calling the method `callee`.
Invoke(callee, picked, status) ==
    /\ IF callee = "FileOpen"
       THEN FileOpen(picked, status)
       ELSE UNCHANGED <<launches, log>>
    /\ guest_time_scalar' = CpuTimeScalar(callee)
    /\ IF callee = "ToggleDisplayConfigDialog"
       THEN ToggleDisplayConfigDialog
       ELSE UNCHANGED <<display_config_dialog_, dialogs>>
    /\ CASE callee = "ToggleFullscreen" -> ToggleFullscreen
         [] callee = "SetFullscreen" -> SetFullscreen(FALSE)
         [] OTHER -> UNCHANGED <<is_fullscreen, cursor_visibility,
                                 fullscreen_writes, cursor_writes>>

\* What the handlers of keys, menu items and dropped files leave alone.
display_vars ==
    <<graphics_system, postprocess_antialiasing,
      postprocess_scaling_and_sharpening, desired_swap_post_effect,
      guest_output_paint_effect>>

\* EscapeCase with Escape bound to the fullscreen toggle.
EscapeCase_Toggles(fullscreen) == "ToggleFullscreen"

\* case ui::VirtualKey::kEscape: return unless the window is fullscreen.
EscapeCase(fullscreen) == IF fullscreen THEN "SetFullscreen" ELSE "return"

\* The method OnKeyDown calls for a key, "return" where it returns before
\* e.set_handled(true).
KeyCase(key, ctrl) ==
    IF ~emulator_initialized_
    THEN "return"
    ELSE CASE key = "kO" -> IF ctrl THEN "FileOpen" ELSE "return"
           [] key = "kMultiply" -> "CpuTimeScalarReset"
           [] key = "kSubtract" -> "CpuTimeScalarSetHalf"
           [] key = "kAdd" -> "CpuTimeScalarSetDouble"
           [] key = "kF3" -> "Profiler::ToggleDisplay"
           [] key = "kF4" -> "GpuTraceFrame"
           [] key = "kF5" -> "GpuClearCaches"
           [] key = "kF6" -> "ToggleDisplayConfigDialog"
           [] key = "kF11" -> "ToggleFullscreen"
           [] key = "kEscape" -> EscapeCase(is_fullscreen)
           [] key = "kF7" -> IF DEBUG THEN "SaveToFile" ELSE "return"
           [] key = "kF8" -> IF DEBUG THEN "RestoreFromFile" ELSE "return"
           [] key = "kPause" -> "CpuBreakIntoDebugger"
           [] key = "kCancel" -> "CpuBreakIntoHostDebugger"
           [] key = "kF1" -> "ShowFAQ"
           [] key = "kF2" -> "ShowBuildCommit"
           [] OTHER -> "return"

\* void EmulatorWindow::OnKeyDown(ui::KeyEvent& e)
OnKeyDown(key, ctrl, picked, status) ==
    LET callee == KeyCase(key, ctrl)
    IN  /\ Event([handler |-> "OnKeyDown", key |-> key, ctrl |-> ctrl,
                  invoked |-> callee, handled |-> callee # "return",
                  arg |-> IF callee = "SetFullscreen" THEN "false" ELSE "none",
                  wrote |-> {}, after_toggle |-> {}])
        /\ Invoke(callee, picked, status)
        /\ UNCHANGED <<emulator_initialized_, main_menu_enabled,
                       cvars_fullscreen, display_vars, dispatch_vars>>

\* FileDrop without the check of emulator_initialized_.
FileDrop_NoInitCheck(status) ==
    /\ Event([NoEvent EXCEPT !.handler = "FileDrop", !.invoked = "LaunchPath"])
    /\ LaunchPath(status)
    /\ UNCHANGED <<emulator_initialized_, main_menu_enabled, is_fullscreen,
                   cursor_visibility, cvars_fullscreen, guest_time_scalar,
                   display_config_dialog_, dialogs, fullscreen_writes,
                   cursor_writes,
                   display_vars, dispatch_vars>>

\* void EmulatorWindow::FileDrop(const std::filesystem::path& filename)
FileDrop(status) ==
    /\ Event([NoEvent EXCEPT !.handler = "FileDrop",
                             !.invoked = IF emulator_initialized_
                                         THEN "LaunchPath" ELSE "return"])
    /\ IF emulator_initialized_
       THEN LaunchPath(status)
       ELSE UNCHANGED <<launches, log>>
    /\ UNCHANGED <<emulator_initialized_, main_menu_enabled, is_fullscreen,
                   cursor_visibility, cvars_fullscreen, guest_time_scalar,
                   display_config_dialog_, dialogs, fullscreen_writes,
                   cursor_writes,
                   display_vars, dispatch_vars>>

\* void EmulatorWindow::OnEmulatorInitialized(), called once by the start-up.
OnEmulatorInitialized ==
    /\ ~emulator_initialized_
    /\ Event([NoEvent EXCEPT !.handler = "OnEmulatorInitialized",
                             !.invoked = IF cvars_fullscreen
                                         THEN "SetFullscreen" ELSE "none",
                             !.arg = IF cvars_fullscreen
                                     THEN "true" ELSE "none"])
    /\ emulator_initialized_' = TRUE
    /\ main_menu_enabled' = TRUE
    /\ IF cvars_fullscreen
       THEN SetFullscreen(TRUE)
       ELSE UNCHANGED <<is_fullscreen, cursor_visibility, fullscreen_writes,
                        cursor_writes>>
    /\ UNCHANGED <<cvars_fullscreen, guest_time_scalar, launches, log,
                   display_config_dialog_, dialogs, display_vars,
                   dispatch_vars>>

\* The user picks an item of the main menu, which the window lets them do
\* only while the menu is enabled; the item calls the method bound to it.
MenuSelect(callee, picked, status) ==
    /\ main_menu_enabled
    /\ Event([NoEvent EXCEPT !.handler = "MainMenu", !.invoked = callee])
    /\ Invoke(callee, picked, status)
    /\ UNCHANGED <<emulator_initialized_, main_menu_enabled,
                   cvars_fullscreen, display_vars, dispatch_vars>>

\* SetFullscreen(fullscreen) called on the window by its owner.
CallSetFullscreen(fullscreen) ==
    /\ Event([NoEvent EXCEPT !.handler = "SetFullscreen",
                             !.invoked = "SetFullscreen",
                             !.arg = IF fullscreen THEN "true" ELSE "false"])
    /\ SetFullscreen(fullscreen)
    /\ UNCHANGED <<emulator_initialized_, main_menu_enabled,
                   cvars_fullscreen, guest_time_scalar, launches, log,
                   display_config_dialog_, dialogs, display_vars,
                   dispatch_vars>>

\* The window as created, with the cursor visibility the window starts with
\* and the fullscreen cvar of the configuration; no guest call is made.
WindowInit ==
    /\ ServiceConstructed(<<U32(0, 0), U32(0, 0)>>)
    /\ \E cursor \in CursorVisibilities, fullscreen_cvar \in BOOLEAN :
          WindowCreated(cursor, fullscreen_cvar, "", "", "ready")

\* What the file picker and the launch give when `callee` is run: a path or
\* none, and the status of launching it; nothing to choose for other methods.
NoPick == <<FALSE, U32(0, 0)>>
FilePicks(callee) ==
    IF callee = "FileOpen"
    THEN {NoPick} \cup {<<TRUE, status>> : status \in LaunchResults}
    ELSE {NoPick}

WindowNext ==
    \/ OnEmulatorInitialized
    \/ \E key \in VirtualKeys, ctrl \in BOOLEAN :
          \E pick \in FilePicks(KeyCase(key, ctrl)) :
              OnKeyDown(key, ctrl, pick[1], pick[2])
    \/ \E status \in LaunchResults : FileDrop(status)
    \/ \E callee \in MenuCallees : \E pick \in FilePicks(callee) :
          MenuSelect(callee, pick[1], pick[2])

\* The emulator window handling the user's keys, menu picks and dropped files.
WindowSpec == WindowInit /\ [][WindowNext]_vars

FullscreenNext ==
    \/ OnEmulatorInitialized
    \/ \E fullscreen \in BOOLEAN : CallSetFullscreen(fullscreen)
    \/ \E key \in {"kF11", "kEscape"} :
          OnKeyDown(key, FALSE, NoPick[1], NoPick[2])
    \/ MenuSelect("ToggleFullscreen", NoPick[1], NoPick[2])

\* The window switched between windowed and fullscreen: by its owner calling
\* SetFullscreen, by F11 and Escape, and by the Fullscreen menu item.
FullscreenSpec == WindowInit /\ [][FullscreenNext]_vars

\* ------------------------------------------- post-processing settings
\* The anti-aliasing section of OnDraw that writes the cvar at every draw.
AntiAliasingSection_AlwaysOverrides(new_swap_post_effect) ==
    /\ desired_swap_post_effect' = new_swap_post_effect
    /\ postprocess_antialiasing' =
          GetCvarValueForSwapPostEffect(new_swap_post_effect)

\* The "Anti-aliasing" section of DisplayConfigDialog::OnDraw: the radio
\* buttons give new_swap_post_effect; SetDesiredSwapPostEffect if it is not
\* the current one; OVERRIDE_string if the cvar does not decode to it.
AntiAliasingSection(new_swap_post_effect) ==
    /\ desired_swap_post_effect' =
          IF desired_swap_post_effect # new_swap_post_effect
          THEN new_swap_post_effect
          ELSE desired_swap_post_effect
    /\ postprocess_antialiasing' =
          IF GetSwapPostEffectForCvarValue(postprocess_antialiasing)
                # new_swap_post_effect
          THEN GetCvarValueForSwapPostEffect(new_swap_post_effect)
          ELSE postprocess_antialiasing

\* The presenter part of OnDraw, for the effect of the paint configuration:
\* SetGuestOutputPaintConfigFromUIThread(new_presenter_config), and
\* OVERRIDE_string if the cvar does not decode to the new effect. The
\* sharpness sliders and the dither checkbox are not kept.
PresenterSection(new_effect) ==
    /\ guest_output_paint_effect' = new_effect
    /\ postprocess_scaling_and_sharpening' =
          IF GetGuestOutputPaintEffectForCvarValue(
                 postprocess_scaling_and_sharpening) # new_effect
          THEN GetCvarValueForGuestOutputPaintEffect(new_effect)
          ELSE postprocess_scaling_and_sharpening

\* The statements OnDraw runs after its call of ToggleDisplayConfigDialog, in
\* order, with the members of the dialog each of them reads or writes.
OnDrawAfterToggle == <<[statement |-> "return", members |-> {}]>>

\* What one OnDraw writes, by name.
OnDrawWrites(aa, new_swap_post_effect, presenter, new_effect) ==
    (IF aa /\ desired_swap_post_effect # new_swap_post_effect
     THEN {"SetDesiredSwapPostEffect"} ELSE {})
    \cup (IF aa /\ GetSwapPostEffectForCvarValue(postprocess_antialiasing)
                     # new_swap_post_effect
          THEN {"postprocess_antialiasing"} ELSE {})
    \cup (IF presenter THEN {"SetGuestOutputPaintConfigFromUIThread"} ELSE {})
    \cup (IF presenter /\ GetGuestOutputPaintEffectForCvarValue(
                              postprocess_scaling_and_sharpening) # new_effect
          THEN {"postprocess_scaling_and_sharpening"} ELSE {})

\* void EmulatorWindow::DisplayConfigDialog::OnDraw(ImGuiIO& io), drawn while
\* the dialog exists. begin is what ImGui::Begin returns, dialog_open is false
\* when the close button was pressed, aa_open and scaling_open are what
\* TreeNodeEx returns, aa_selected and scaling_selected are where the radio
\* buttons stand after the user's click, if any.
OnDraw(begin, dialog_open, aa_open, aa_selected, scaling_open, scaling_selected) ==
    /\ display_config_dialog_
    /\ LET drawn == graphics_system # "null" /\ begin
           aa == drawn /\ graphics_system = "ready" /\ aa_open
           presenter == drawn
           new_effect == IF scaling_open THEN scaling_selected
                         ELSE guest_output_paint_effect
           closes == drawn /\ ~dialog_open
       IN  /\ Event([NoEvent EXCEPT
                       !.handler = "OnDraw",
                       !.invoked = IF closes THEN "ToggleDisplayConfigDialog"
                                   ELSE "none",
                       !.arg = IF aa THEN aa_selected ELSE "none",
                       !.wrote = OnDrawWrites(aa, aa_selected, presenter,
                                              new_effect),
                       !.after_toggle =
                           IF closes
                           THEN UNION {OnDrawAfterToggle[i].members :
                                         i \in DOMAIN OnDrawAfterToggle}
                           ELSE {}])
           /\ IF aa
              THEN AntiAliasingSection(aa_selected)
              ELSE UNCHANGED <<desired_swap_post_effect,
                               postprocess_antialiasing>>
           /\ IF presenter
              THEN PresenterSection(new_effect)
              ELSE UNCHANGED <<guest_output_paint_effect,
                               postprocess_scaling_and_sharpening>>
           /\ IF closes
              THEN ToggleDisplayConfigDialog
              ELSE UNCHANGED <<display_config_dialog_, dialogs>>
    /\ UNCHANGED <<emulator_initialized_, main_menu_enabled, is_fullscreen,
                   cursor_visibility, cvars_fullscreen, guest_time_scalar,
                   launches, log, graphics_system, fullscreen_writes,
                   cursor_writes, dispatch_vars>>

\* void EmulatorWindow::ApplyDisplayConfigForCvars()
ApplyDisplayConfigForCvars ==
    /\ desired_swap_post_effect' =
          IF graphics_system = "ready"
          THEN GetSwapPostEffectForCvarValue(postprocess_antialiasing)
          ELSE desired_swap_post_effect
    /\ guest_output_paint_effect' =
          IF graphics_system # "null"
          THEN GetGuestOutputPaintEffectForCvarValue(
                   postprocess_scaling_and_sharpening)
          ELSE guest_output_paint_effect

\* void DisplayConfigGameConfigLoadCallback::PostGameConfigLoad()
PostGameConfigLoad ==
    /\ Event([NoEvent EXCEPT !.handler = "PostGameConfigLoad",
                             !.invoked = "ApplyDisplayConfigForCvars"])
    /\ ApplyDisplayConfigForCvars
    /\ UNCHANGED <<emulator_initialized_, main_menu_enabled, is_fullscreen,
                   cursor_visibility, cvars_fullscreen, guest_time_scalar,
                   launches, log, display_config_dialog_, dialogs,
                   graphics_system,
                   postprocess_antialiasing,
                   postprocess_scaling_and_sharpening, fullscreen_writes,
                   cursor_writes, dispatch_vars>>

\* The window as created, with the two cvars as the configuration gives them
\* and the graphics system as far as the start-up has brought it.
DisplayConfigInit ==
    /\ ServiceConstructed(<<U32(0, 0), U32(0, 0)>>)
    /\ \E aa_cvar \in AntialiasingCvarValues,
          scaling_cvar \in ScalingCvarValues, graphics \in GraphicsSystems :
          WindowCreated("kVisible", FALSE, aa_cvar, scaling_cvar, graphics)

DisplayConfigNext ==
    \/ OnEmulatorInitialized
    \/ OnKeyDown("kF6", FALSE, NoPick[1], NoPick[2])
    \/ MenuSelect("ToggleDisplayConfigDialog", NoPick[1], NoPick[2])
    \/ \E begin \in BOOLEAN, dialog_open \in BOOLEAN, aa_open \in BOOLEAN,
          aa_selected \in SwapPostEffects, scaling_open \in BOOLEAN,
          scaling_selected \in PaintEffects :
          OnDraw(begin, dialog_open, aa_open, aa_selected, scaling_open,
                 scaling_selected)
    \/ PostGameConfigLoad

\* The post-processing settings dialog: opened and closed, drawn, and the
\* cvars applied after a game's configuration is loaded.
DisplayConfigSpec == DisplayConfigInit /\ [][DisplayConfigNext]_vars

\* ------------------------------------------------------------------ claims
\* The opcodes the documented table lists: 0x00400001 .. 0x00400005.
DocumentedOpcodes == {U32(64, i) : i \in 1..5}
Faulted(t) == pc[t] = "fault"
Finished(t) == pc[t] = "done"

\* C1: a dispatch whose message is none of 0x00400001..0x00400005 returns
\* X_STATUS_UNSUCCESSFUL, whatever buffer_ptr and buffer_length are, and never
\* ends in a host fault.
C1_UnmatchedReturnsUnsuccessful ==
    \A t \in Threads :
        message[t] \notin DocumentedOpcodes =>
            /\ ~Faulted(t)
            /\ Finished(t) => result[t] = X_STATUS_UNSUCCESSFUL

\* An unmatched dispatch (0x00400099, unmapped address, nonzero length) has
\* returned the failure code.
C1_Witness ==
    \E t \in Threads :
        /\ Finished(t)
        /\ message[t] = U32(64, 153)
        /\ buffer_ptr[t] = U32(57005, 48879)
        /\ buffer_length[t] = U32(0, 16)
        /\ result[t] = X_STATUS_UNSUCCESSFUL

\* C2: a dispatch whose message is one of the five documented opcodes returns
\* X_E_SUCCESS for every buffer_ptr and buffer_length.
C2_StubsReturnSuccess ==
    \A t \in Threads :
        (Finished(t) /\ message[t] \in DocumentedOpcodes) =>
            result[t] = X_E_SUCCESS

\* Init and GetString, both called with buffer_ptr = 0 and buffer_length = 0,
\* have returned success.
C2_Witness ==
    /\ Finished(1) /\ Finished(2)
    /\ message[1] = U32(64, 1) /\ message[2] = U32(64, 5)
    /\ buffer_ptr[1] = U32(0, 0) /\ buffer_length[1] = U32(0, 0)
    /\ buffer_ptr[2] = U32(0, 0) /\ buffer_length[2] = U32(0, 0)
    /\ result[1] = X_E_SUCCESS /\ result[2] = X_E_SUCCESS

\* The entries of a sequence of log entries that are at error severity.
ErrorEntries(es) == SelectSeq(es, LAMBDA e : e.level = "Error")
\* The values a log entry's text shows in hexadecimal, in order.
HexArgs(entry) ==
    LET h == SelectSeq(entry.text, LAMBDA p : p.kind = "hex")
    IN  [i \in 1..Len(h) |-> HexValue(h[i].digits)]
Count(seq, x) == Len(SelectSeq(seq, LAMBDA e : e = x))
PastTranslate(t) == pc[t] \in {"switch", "case", "return", "done"}

\* C3: a dispatch whose message is not in the opcode table logs exactly one
\* error-severity entry, and the entry shows the service id 0xF5, the message,
\* buffer_ptr and buffer_length in hexadecimal.
C3_UnmatchedLogsIdMessageAndArgs ==
    \A t \in Threads :
        (Finished(t) /\ message[t] \notin DocumentedOpcodes) =>
            LET errs == ErrorEntries(emitted[t])
            IN  /\ Len(errs) = 1
                /\ HexArgs(errs[1]) =
                     <<U32(0, 245), message[t], buffer_ptr[t], buffer_length[t]>>

\* C4: a dispatch of a documented opcode logs one entry, not at error severity;
\* error-severity entries come only from dispatches of other messages.
C4_StubsLogBelowError ==
    /\ \A t \in Threads :
        /\ (Finished(t) /\ message[t] \in DocumentedOpcodes) =>
              (Len(emitted[t]) = 1 /\ emitted[t][1].level # "Error")
        /\ ErrorEntries(emitted[t]) # <<>> =>
              message[t] \notin DocumentedOpcodes
    /\ ErrorEntries(log) # <<>> =>
          \E a \in ArgsInUse : a[1] \notin DocumentedOpcodes

\* A stub call has finished with its one debug entry, which shows its two
\* arguments, while an unmatched call has put an error entry in the log.
C4_Witness ==
    /\ Finished(1) /\ Finished(2)
    /\ message[1] = U32(64, 2)
    /\ Len(emitted[1]) = 1
    /\ emitted[1][1].level = "Debug"
    /\ HexArgs(emitted[1][1]) = <<buffer_ptr[1], buffer_length[1]>>
    /\ buffer_ptr[1] = U32(1, 16)
    /\ message[2] = U32(64, 6)
    /\ Len(ErrorEntries(log)) = 1

\* C5: every dispatch that has started eventually returns, and when it has
\* returned it has set its result code exactly once; no code is set before.
C5_EveryDispatchReturnsOneCode ==
    /\ \A t \in Threads : (pc[t] = "translate") ~> Finished(t)
    /\ [](\A t \in Threads :
            /\ Finished(t) =>
                  (result[t] # NoResult /\ Count(trace[t], "return") = 1)
            /\ InFlight(t) =>
                  (result[t] = NoResult /\ Count(trace[t], "return") = 0))

\* Both threads have run a dispatch to its end, one matched and one not.
C5_Witness ==
    /\ Finished(1) /\ Finished(2)
    /\ result[1] = X_E_SUCCESS /\ result[2] = X_STATUS_UNSUCCESSFUL
    /\ Count(trace[1], "return") = 1 /\ Count(trace[2], "return") = 1

\* C6: for buffer_ptr = 0 the translation yields null without a look at the
\* guest memory map and without a miss being flagged, and a stub then returns
\* its success code; no fault.
C6_ZeroAddressIsNoError ==
    \A t \in Threads :
        (buffer_ptr[t] = U32(0, 0) /\ PastTranslate(t)) =>
            /\ buffer[t].null
            /\ ~buffer[t].consulted
            /\ ~buffer[t].miss
            /\ (Finished(t) /\ message[t] \in DocumentedOpcodes) =>
                  result[t] = X_E_SUCCESS

\* A stub called with buffer_ptr = 0 and a nonzero length has returned success
\* with a null buffer, and no thread has faulted.
C6_Witness ==
    \E t \in Threads :
        /\ Finished(t)
        /\ buffer_ptr[t] = U32(0, 0)
        /\ buffer_length[t] = U32(0, 16)
        /\ message[t] = U32(64, 3)
        /\ buffer[t].null
        /\ result[t] = X_E_SUCCESS
        /\ \A u \in Threads : ~Faulted(u)

\* C7: XFAILED is false of X_E_SUCCESS and true of X_STATUS_UNSUCCESSFUL, and
\* XFAILED of a dispatch's code is true exactly when the message is none of
\* the documented opcodes.
C7_FailureExactlyWhenUnmatched ==
    /\ ~XFAILED(X_E_SUCCESS)
    /\ XFAILED(X_STATUS_UNSUCCESSFUL)
    /\ \A t \in Threads :
          Finished(t) =>
              (XFAILED(result[t]) <=> message[t] \notin DocumentedOpcodes)

\* One finished call is seen as failed and the other as not failed.
C7_Witness ==
    /\ Finished(1) /\ Finished(2)
    /\ message[1] = U32(64, 0) /\ XFAILED(result[1])
    /\ message[2] = U32(64, 4) /\ ~XFAILED(result[2])

\* The code the documented table gives a message.
DocumentedCode(msg) ==
    IF msg \in DocumentedOpcodes THEN X_E_SUCCESS ELSE X_STATUS_UNSUCCESSFUL

\* C8: when two threads are inside the dispatch at once, neither is ever kept
\* from taking its next step by the other, neither faults, and each returns
\* the code of its own message.
C8_ConcurrentCallsIndependent ==
    \A t \in Threads :
        /\ ~Faulted(t)
        /\ InFlight(t) => ENABLED Step(t)
        /\ (Finished(t) /\ overlapped[t]) =>
              result[t] = DocumentedCode(message[t])

\* Two overlapping calls with different messages have both returned, one with
\* success and one with the failure code.
C8_Witness ==
    /\ Finished(1) /\ Finished(2)
    /\ overlapped[1] /\ overlapped[2]
    /\ message[1] = U32(64, 1) /\ message[2] = U32(64, 153)
    /\ result[1] = X_E_SUCCESS /\ result[2] = X_STATUS_UNSUCCESSFUL

\* C9: calls with identical (message, buffer_ptr, buffer_length) return the
\* identical code, whatever was dispatched in between.
C9_SameArgsSameCode ==
    \A i \in 1..Len(returned) : \A j \in 1..Len(returned) :
        returned[i][1] = returned[j][1] => returned[i][2] = returned[j][2]

\* The same stub call has returned twice with an unmatched call returning in
\* between.
C9_Witness ==
    /\ Len(returned) = 3
    /\ returned[1][1] = returned[3][1]
    /\ returned[1][2] = X_E_SUCCESS
    /\ returned[3][2] = X_E_SUCCESS
    /\ returned[2][1] # returned[1][1]
    /\ returned[2][2] = X_STATUS_UNSUCCESSFUL

\* C10: in every dispatch the translation of buffer_ptr runs exactly once, as
\* the first thing the call does, before the switch and any case body, on the
\* unmatched path as on the matched ones.
C10_TranslateOnceAndFirst ==
    \A t \in Threads :
        /\ Count(trace[t], "translate") <= 1
        /\ trace[t] # <<>> => trace[t][1] = "translate"
        /\ PastTranslate(t) =>
              /\ Count(trace[t], "translate") = 1
              /\ buffer[t] = TranslateVirtual(buffer_ptr[t])
        /\ Finished(t) => trace[t] = <<"translate", "lookup", "log", "return">>

\* An unmatched call and a matched call have both finished, each with one
\* translation at the head of its trace.
C10_Witness ==
    /\ Finished(1) /\ Finished(2)
    /\ message[1] \notin DocumentedOpcodes /\ message[2] \in DocumentedOpcodes
    /\ buffer_ptr[1] = U32(57005, 48879) /\ buffer[1].miss
    /\ buffer_ptr[2] = U32(57005, 48879) /\ buffer[2].miss
    /\ trace[1][1] = "translate" /\ trace[2][1] = "translate"

\* The raw guest address of the call appears among the values its log entries
\* show.
RawAddressShown(t) ==
    \E i \in 1..Len(emitted[t]) :
        \E k \in 1..Len(HexArgs(emitted[t][i])) :
            HexArgs(emitted[t][i])[k] = buffer_ptr[t]
InCaseBodyOrAfter(t) == pc[t] \in {"return", "done"}

\* C11 as stated: a case body of the opcode table never uses the untranslated
\* buffer_ptr value, so a nonzero raw guest address never shows in what the
\* case body emits.
C11_CaseBodyNeverUsesRawAddress ==
    \A t \in Threads :
        (InCaseBodyOrAfter(t) /\ case[t] \in StubCases
            /\ buffer_ptr[t] # U32(0, 0)) => ~RawAddressShown(t)

\* C11: when the message is in the opcode table, the case body runs after the
\* translation, with the translated pointer in `buffer`; it reads neither
\* through `buffer` nor through the raw address, and its only use of the raw
\* buffer_ptr and of buffer_length is to print them in its one debug entry;
\* the code it returns is X_E_SUCCESS and no call faults.
C11_CaseBodyOnlyLogsRawAddress ==
    \A t \in Threads :
        /\ ~Faulted(t)
        /\ (InCaseBodyOrAfter(t) /\ case[t] \in StubCases) =>
              /\ buffer[t] = TranslateVirtual(buffer_ptr[t])
              /\ ~CaseReadsBuffer(case[t])
              /\ emitted[t] =
                    <<XELOGD(StubFormat(case[t]),
                             <<buffer_ptr[t], buffer_length[t]>>)>>
              /\ HexArgs(emitted[t][1]) = <<buffer_ptr[t], buffer_length[t]>>
              /\ Finished(t) => result[t] = X_E_SUCCESS

\* GetString called with a mapped buffer has returned: its translated pointer
\* is a host pointer, and its entry shows the raw guest address 0x00010010.
C11_Witness ==
    \E t \in Threads :
        /\ Finished(t)
        /\ message[t] = XIME_GET_STRING
        /\ buffer_ptr[t] = U32(1, 16)
        /\ buffer[t].host = HostPtr(U32(1, 16))
        /\ RawAddressShown(t)
        /\ result[t] = X_E_SUCCESS

\* C12: a dispatch changes nothing except the diagnostic log: after any
\* sequence of dispatches the bytes of guest memory and the app id 0xF5 are
\* those of the construction, every call has been looked up in the same table
\* (its code is the code the table gives its message, whatever ran before),
\* and the log holds one entry per call that has logged.
C12_DispatchChangesOnlyTheLog ==
    /\ guest_memory = InitialGuestMemory
    /\ app_id_ = U32(0, 245)
    /\ \A i \in 1..Len(returned) :
          returned[i][2] = DocumentedCode(returned[i][1][1])
    /\ Len(log) =
          Len(returned) + Cardinality({t \in Threads : pc[t] = "return"})

\* Two calls have returned, a stub called with a mapped buffer and an
\* unmatched one; the log has their two entries and the byte at 0x00010010 is
\* the one the guest had put there.
C12_Witness ==
    /\ Len(returned) = 2
    /\ Len(log) = 2
    /\ \E i \in 1..2 :
          /\ returned[i][1][1] = XIME_GET_STRING
          /\ returned[i][1][2] = U32(1, 16)
    /\ \E i \in 1..2 : returned[i][1][1] \notin DocumentedOpcodes
    /\ guest_memory[U32(1, 16)] = 65
    /\ app_id_ = XimeAppId

\* C13: a translation miss is not made a failure: for a message in the opcode
\* table and a nonzero buffer_ptr outside every mapped range, the translation
\* yields null with the miss flagged, the call emits no error-severity entry,
\* does not fault, and returns the case's code, X_E_SUCCESS.
C13_TranslationMissIsNoFailure ==
    \A t \in Threads :
        (message[t] \in DocumentedOpcodes /\ PastTranslate(t)
            /\ buffer_ptr[t] = U32(57005, 48879)) =>
            /\ buffer[t].null /\ buffer[t].miss
            /\ ~Faulted(t)
            /\ ErrorEntries(emitted[t]) = <<>>
            /\ Finished(t) =>
                  /\ result[t] = CaseResult(case[t])
                  /\ result[t] = X_E_SUCCESS
                  /\ ~XFAILED(result[t])

\* SetCharacter called with the unmapped address 0xDEADBEEF has returned
\* success after a missed translation, with its one debug entry.
C13_Witness ==
    \E t \in Threads :
        /\ Finished(t)
        /\ message[t] = XIME_SET_CHARACTER
        /\ buffer_ptr[t] = U32(57005, 48879)
        /\ buffer[t].miss
        /\ result[t] = X_E_SUCCESS
        /\ Len(emitted[t]) = 1 /\ emitted[t][1].level = "Debug"

\* The calls with a message outside the table that returned before the j-th.
UnmatchedBefore(j) ==
    {i \in 1..(j - 1) : returned[i][1][1] \notin DocumentedOpcodes}

\* C14: an unmatched opcode leaves no sticky error: however many dispatches
\* of messages outside the table have returned before (each with
\* X_STATUS_UNSUCCESSFUL and without a fault), a dispatch of 0x00400001 ..
\* 0x00400005 returns X_E_SUCCESS, the code it returns when nothing came
\* before it.
C14_UnmatchedLeavesNoStickyError ==
    /\ \A t \in Threads : ~Faulted(t)
    /\ \A j \in 1..Len(returned) :
          IF returned[j][1][1] \in DocumentedOpcodes
          THEN \A n \in 0..MaxRepeatCalls :
                  Cardinality(UnmatchedBefore(j)) = n =>
                      returned[j][2] = X_E_SUCCESS
          ELSE returned[j][2] = X_STATUS_UNSUCCESSFUL

\* Two unmatched dispatches have returned the failure code, and a dispatch of
\* Init that started after both, with no other call in flight, has returned
\* success.
C14_Witness ==
    /\ Len(returned) = 3
    /\ Cardinality(UnmatchedBefore(3)) = 2
    /\ returned[1][2] = X_STATUS_UNSUCCESSFUL
    /\ returned[2][2] = X_STATUS_UNSUCCESSFUL
    /\ returned[3][1][1] = XIME_INIT
    /\ returned[3][2] = X_E_SUCCESS
    /\ Len(ErrorEntries(log)) = 2
    /\ \E t \in Threads :
          Finished(t) /\ message[t] = XIME_INIT /\ ~overlapped[t]

\* C15: the dispatch takes no lock and waits on nothing: with the other call
\* stopped for ever at any point of DispatchMessageSync, its log statement
\* included, a call that has started on the running thread (or nested in the
\* stopped one) still returns its code, and no step of it ever waits.
C15_PausedThreadBlocksNoOne ==
    /\ (pc[RunningThread] = "translate") ~>
          (Finished(RunningThread) /\ result[RunningThread] # NoResult)
    /\ \A p \in {"translate", "switch", "case", "return"} :
          [](pc[Other(RunningThread)] = p /\ InFlight(RunningThread)
                => ENABLED Step(RunningThread))

\* The running thread has started and finished a stub call while the other
\* call stands at its log statement, where it was when the call started.
C15_Witness ==
    /\ pc[Other(RunningThread)] = "case"
    /\ Finished(RunningThread)
    /\ overlapped[RunningThread]
    /\ message[RunningThread] \in DocumentedOpcodes
    /\ result[RunningThread] = X_E_SUCCESS
    /\ Len(log) = 1

\* A step that handles one more UI event.
EventStep == nevents' = nevents + 1
\* What SetFullscreen writes.
fullscreen_vars ==
    <<is_fullscreen, cursor_visibility, fullscreen_writes, cursor_writes>>

\* C16: until OnEmulatorInitialized has run, OnKeyDown and FileDrop do
\* nothing (nothing is launched, the window is not made fullscreen, the time
\* scalar keeps its value, no method is invoked, the key event is not
\* handled) and the main menu is disabled; emulator_initialized_, once true,
\* never becomes false.
C16_NothingBeforeInitialized ==
    /\ [](~emulator_initialized_ =>
            /\ ~main_menu_enabled
            /\ launches = 0 /\ log = <<>>
            /\ ~is_fullscreen /\ fullscreen_writes = 0 /\ cursor_writes = 0
            /\ guest_time_scalar = 0
            /\ ~display_config_dialog_
            /\ last_event.invoked \in {"none", "return"}
            /\ ~last_event.handled)
    /\ [][(~emulator_initialized_ /\ EventStep
             /\ last_event'.handler \in {"OnKeyDown", "FileDrop"}) =>
              UNCHANGED <<emulator_initialized_, main_menu_enabled,
                          fullscreen_vars, guest_time_scalar, launches, log,
                          display_config_dialog_, display_vars>>]_vars
    /\ [][emulator_initialized_ => emulator_initialized_']_vars

\* Before the emulator is initialized the window has handled an event and
\* then an F11 key-down: nothing was launched, the window is not fullscreen,
\* the menu is disabled and the key event is unhandled.
C16_Witness ==
    /\ ~emulator_initialized_
    /\ nevents >= 2
    /\ last_event.handler = "OnKeyDown" /\ last_event.key = "kF11"
    /\ ~last_event.handled
    /\ launches = 0 /\ ~is_fullscreen /\ ~main_menu_enabled

\* C17: Escape can leave fullscreen but never enter it: an Escape key-down
\* leaves the window not fullscreen, and the event is marked handled exactly
\* when the window was fullscreen (which it is only once the emulator is
\* initialized); the window enters fullscreen only through ToggleFullscreen
\* (F11 or the menu item) or through OnEmulatorInitialized with the
\* fullscreen cvar set.
C17_EscapeOnlyLeavesFullscreen ==
    /\ [][(EventStep /\ last_event'.handler = "OnKeyDown"
             /\ last_event'.key = "kEscape") =>
              /\ ~is_fullscreen'
              /\ last_event'.handled <=> (is_fullscreen /\ emulator_initialized_)
              /\ ~is_fullscreen => UNCHANGED fullscreen_vars]_vars
    /\ [][(~is_fullscreen /\ is_fullscreen') =>
              \/ last_event'.invoked = "ToggleFullscreen"
              \/ /\ last_event'.handler = "OnEmulatorInitialized"
                 /\ cvars_fullscreen]_vars
    /\ [](is_fullscreen => emulator_initialized_)

\* Escape has been pressed in a fullscreen window that F11 had made
\* fullscreen: the window is windowed again and the event is handled.
C17_Witness ==
    /\ last_event.handler = "OnKeyDown" /\ last_event.key = "kEscape"
    /\ last_event.handled
    /\ ~is_fullscreen
    /\ ~cvars_fullscreen
    /\ fullscreen_writes = 2

\* C18: SetFullscreen(f) on a window already in state f writes neither the
\* fullscreen state nor the cursor visibility; a call that changes the state
\* sets the cursor visibility to kAutoHidden for fullscreen and to kVisible
\* for windowed; so once the state has changed for the first time, the
\* cursor is auto-hidden exactly when the window is fullscreen.
C18_SetFullscreenWritesOnlyOnChange ==
    /\ [][(EventStep /\ last_event'.invoked = "SetFullscreen"
             /\ last_event'.arg = (IF is_fullscreen THEN "true" ELSE "false"))
              => UNCHANGED fullscreen_vars]_vars
    /\ [][is_fullscreen' # is_fullscreen =>
              /\ cursor_visibility' =
                    IF is_fullscreen' THEN "kAutoHidden" ELSE "kVisible"
              /\ fullscreen_writes' = fullscreen_writes + 1
              /\ cursor_writes' = cursor_writes + 1]_vars
    /\ [][is_fullscreen' = is_fullscreen => UNCHANGED fullscreen_vars]_vars
    /\ [](fullscreen_writes >= 1 =>
            (cursor_visibility = "kAutoHidden" <=> is_fullscreen))

\* OnEmulatorInitialized has made the window fullscreen for the cvar, and a
\* SetFullscreen(true) after it has written nothing: one write of each.
C18_Witness ==
    /\ nevents = 2
    /\ emulator_initialized_ /\ cvars_fullscreen
    /\ last_event.handler = "SetFullscreen" /\ last_event.arg = "true"
    /\ is_fullscreen
    /\ cursor_visibility = "kAutoHidden"
    /\ fullscreen_writes = 1 /\ cursor_writes = 1

\* C19: the effect-to-cvar mappings round-trip: decoding the cvar value of a
\* swap post effect (kNone, kFxaa, kFxaaExtreme) or of a paint effect
\* (kBilinear, kCas, kFsr) gives the effect back, and every string other than
\* "fxaa" and "fxaa_extreme" decodes to kNone, every string other than "cas"
\* and "fsr" to kBilinear; so the effects ApplyDisplayConfigForCvars has set
\* from the cvars encode and decode to themselves.
C19_EffectCvarRoundTrip ==
    /\ \A e \in SwapPostEffects :
          GetSwapPostEffectForCvarValue(GetCvarValueForSwapPostEffect(e)) = e
    /\ \A e \in PaintEffects :
          GetGuestOutputPaintEffectForCvarValue(
              GetCvarValueForGuestOutputPaintEffect(e)) = e
    /\ \A v \in (AntialiasingCvarValues \cup ScalingCvarValues
                 \cup {postprocess_antialiasing,
                       postprocess_scaling_and_sharpening}) :
          /\ v \notin {"fxaa", "fxaa_extreme"} =>
                GetSwapPostEffectForCvarValue(v) = "kNone"
          /\ v \notin {"cas", "fsr"} =>
                GetGuestOutputPaintEffectForCvarValue(v) = "kBilinear"
    /\ (last_event.handler = "PostGameConfigLoad"
          /\ graphics_system = "ready") =>
          /\ desired_swap_post_effect =
                GetSwapPostEffectForCvarValue(postprocess_antialiasing)
          /\ GetSwapPostEffectForCvarValue(
                 GetCvarValueForSwapPostEffect(desired_swap_post_effect))
                = desired_swap_post_effect
          /\ guest_output_paint_effect =
                GetGuestOutputPaintEffectForCvarValue(
                    postprocess_scaling_and_sharpening)
          /\ GetGuestOutputPaintEffectForCvarValue(
                 GetCvarValueForGuestOutputPaintEffect(
                     guest_output_paint_effect))
                = guest_output_paint_effect

\* The cvars of a game's configuration, "fxaa_extreme" and the unlisted
\* "bilinear", have been applied: the renderer has extreme-quality FXAA and
\* bilinear filtering.
C19_Witness ==
    /\ last_event.handler = "PostGameConfigLoad"
    /\ graphics_system = "ready"
    /\ postprocess_antialiasing = "fxaa_extreme"
    /\ desired_swap_post_effect = "kFxaaExtreme"
    /\ postprocess_scaling_and_sharpening = "bilinear"
    /\ guest_output_paint_effect = "kBilinear"

\* C20: when DisplayConfigDialog::OnDraw has gone through its anti-aliasing
\* section (command processor there, section open), the cvar and the renderer
\* agree: postprocess_antialiasing decodes to the command processor's desired
\* swap post effect, which is the effect selected, whatever the cvar held
\* before; the cvar has been written only if it decoded to another effect
\* than the one selected.
C20_DrawnCvarAgreesWithRenderer ==
    /\ [][(EventStep /\ last_event'.handler = "OnDraw"
             /\ last_event'.arg # "none") =>
              /\ desired_swap_post_effect' = last_event'.arg
              /\ GetSwapPostEffectForCvarValue(postprocess_antialiasing')
                    = desired_swap_post_effect'
              /\ postprocess_antialiasing' # postprocess_antialiasing =>
                    GetSwapPostEffectForCvarValue(postprocess_antialiasing)
                       # last_event'.arg
              /\ "postprocess_antialiasing" \in last_event'.wrote <=>
                    GetSwapPostEffectForCvarValue(postprocess_antialiasing)
                       # last_event'.arg]_vars
    /\ []((last_event.handler = "OnDraw" /\ last_event.arg # "none") =>
            GetSwapPostEffectForCvarValue(postprocess_antialiasing)
               = desired_swap_post_effect)

\* The dialog has been drawn with "none" in the cvar and None selected: the
\* cvar still reads "none" and was not written; the renderer has no effect.
C20_Witness ==
    /\ last_event.handler = "OnDraw"
    /\ last_event.arg = "kNone"
    /\ postprocess_antialiasing = "none"
    /\ "postprocess_antialiasing" \notin last_event.wrote
    /\ desired_swap_post_effect = "kNone"

\* The DisplayConfigDialog objects that exist: constructed and not destroyed.
LiveDialogs == dialogs.constructed - dialogs.destroyed
\* The last event was an OnDraw whose close button called the toggle.
ClosedByOnDraw ==
    /\ last_event.handler = "OnDraw"
    /\ last_event.invoked = "ToggleDisplayConfigDialog"

\* C21: starting with no dialog, after any sequence of calls of
\* ToggleDisplayConfigDialog (from F6, from the menu item, from the close
\* button in OnDraw) at most one DisplayConfigDialog exists, it is the one
\* display_config_dialog_ holds, and it exists exactly when the number of
\* calls so far is odd; an OnDraw that calls the toggle destroys the dialog
\* and touches no member of it afterwards.
C21_ToggleAlternatesDialog ==
    /\ LiveDialogs \in {0, 1}
    /\ display_config_dialog_ <=> LiveDialogs = 1
    /\ display_config_dialog_ <=> dialogs.toggles % 2 = 1
    /\ ClosedByOnDraw =>
          /\ ~display_config_dialog_
          /\ dialogs.destroyed >= 1
          /\ last_event.after_toggle = {}

\* The dialog has been opened twice and closed twice, the second time by the
\* close button pressed in OnDraw.
C21_Witness ==
    /\ ClosedByOnDraw
    /\ dialogs.toggles = 4
    /\ dialogs.constructed = 2 /\ dialogs.destroyed = 2
    /\ ~display_config_dialog_

====
